---------------------------- MODULE Spec2Model ----------------------------
(***************************************************************************)
(* Model of main() of src/main.cpp: the scenario driver that connects to   *)
(* a simulation server, spawns a vehicle, places the spectator, drives     *)
(* the vehicle for a fixed number of ticks, brakes and exits.              *)
(*                                                                         *)
(* The program is single-threaded; pc is the position in main.  log is     *)
(* the sequence of calls main has issued (SDK calls, sleeps, handle        *)
(* resets), in order; stderr is the sequence of lines written to           *)
(* std::cerr.  Every SDK call either returns or throws a std::exception.   *)
(* Floating point control values are kept in tenths (0.5f is 5).           *)
(***************************************************************************)
EXTENDS Integers, Sequences, FiniteSets, TLC

VARIABLES pc, argv, host, port, timeout, blueprint_library, vehicle_bp,
          vehicles, spawn_points, spawn_point, actor, vehicle,
          vehicle_transform, control, i, log, stderr, exc, status, exitVia

cfg  == <<argv, host, port>>
sess == <<timeout, blueprint_library, vehicle_bp, vehicles, spawn_points, spawn_point>>
veh  == <<actor, vehicle, vehicle_transform, control, i>>
out  == <<stderr, status, exitVia>>
vars == <<pc, cfg, sess, veh, out, log, exc>>

-----------------------------------------------------------------------------
(* Bounds of the model.                                                    *)

\* largest blueprint library the server returns
MaxLib == 2
\* longest recommended spawn-point list the map returns
MaxSpawnPoints == 1

-----------------------------------------------------------------------------
(* Program constants.                                                      *)

DefaultPort == 2000
TimeoutMs == 10000
SettleMs == 1000
Ticks == 50
TickMs == 100
DwellMs == 2000
IntMax == 2147483647
U16Mod == 65536
BehindMeters == 7
AboveMeters == 3
CameraPitch == -10
HalfThrottle == 5
FullBrake == 10

DefaultHost == "localhost"
TeslaModel3 == <<"vehicle", "tesla", "model3">>

-----------------------------------------------------------------------------
(* std::stoi on a character sequence: skip leading white space (every      *)
(* character isspace accepts in the "C" locale), an optional               *)
(* sign, then the longest run of decimal digits; what follows the digits   *)
(* is ignored.  No digit: std::invalid_argument.  A value outside int:     *)
(* std::out_of_range.  The value is accumulated on the negative side so    *)
(* that INT_MIN is representable.                                          *)

Digits == {"0", "1", "2", "3", "4", "5", "6", "7", "8", "9"}

DigitVal(c) ==
    CASE c = "0" -> 0 [] c = "1" -> 1 [] c = "2" -> 2 [] c = "3" -> 3
      [] c = "4" -> 4 [] c = "5" -> 5 [] c = "6" -> 6 [] c = "7" -> 7
      [] c = "8" -> 8 [] c = "9" -> 9

\* isspace: space, \t, \n, \v, \f, \r ("\v" stands for the vertical tab)
Whitespace == {" ", "\t", "\n", "\\v", "\f", "\r"}

RECURSIVE SkipSpace(_, _)
SkipSpace(s, k) ==
    IF k <= Len(s) /\ s[k] \in Whitespace THEN SkipSpace(s, k + 1) ELSE k

\* acc is minus the magnitude read so far; low is the least value allowed.
RECURSIVE AccumulateDigits(_, _, _, _)
AccumulateDigits(s, k, acc, low) ==
    IF k > Len(s) \/ s[k] \notin Digits
    THEN [ok |-> TRUE, neg |-> acc]
    ELSE LET d == DigitVal(s[k])
         IN  IF acc >= (low + d + 9) \div 10
             THEN AccumulateDigits(s, k + 1, acc * 10 - d, low)
             ELSE [ok |-> FALSE, neg |-> low]

stoi(s) ==
    LET p      == SkipSpace(s, 1)
        signed == p <= Len(s) /\ s[p] \in {"-", "+"}
        minus  == p <= Len(s) /\ s[p] = "-"
        q      == IF signed THEN p + 1 ELSE p
        low    == IF minus THEN (-IntMax) - 1 ELSE -IntMax
        r      == AccumulateDigits(s, q, 0, low)
    IN  IF q > Len(s) \/ s[q] \notin Digits
        THEN [ok |-> FALSE, what |-> "invalid_argument", val |-> 0]
        ELSE IF ~r.ok
        THEN [ok |-> FALSE, what |-> "out_of_range", val |-> 0]
        ELSE [ok |-> TRUE, what |-> "", val |-> IF minus THEN r.neg ELSE -r.neg]

\* the conversion int -> uint16_t of the assignment to port
ToUint16(n) == n % U16Mod

-----------------------------------------------------------------------------
(* Inputs.                                                                 *)

RECURSIVE SeqsUpTo(_, _)
SeqsUpTo(S, n) ==
    IF n = 0 THEN {<<>>}
    ELSE LET shorter == SeqsUpTo(S, n - 1)
         IN  shorter \cup {Append(s, c) : s \in shorter, c \in S}

\* second arguments tried: a port, a value above 65535, a negative value,
\* digits followed by text, text, nothing, a lone sign, a value above INT_MAX,
\* white space other than blanks before the digits
PortArgs ==
    { <<"3", "0", "0", "0">>,
      <<"7", "0", "0", "0", "0">>,
      <<"-", "1">>,
      <<" ", "+", "4", "2", "x">>,
      <<"n", "o", "t", "a", "n", "u", "m", "b", "e", "r">>,
      <<>>,
      <<"-">>,
      <<"\t", "\n", "9">>,
      <<"9", "9", "9", "9", "9", "9", "9", "9", "9", "9", "9">> }

Hosts == {"10.0.0.5"}

Argvs ==
    {<<>>} \cup {<<h>> : h \in Hosts} \cup {<<h, p>> : h \in Hosts, p \in PortArgs}

BlueprintIds ==
    { TeslaModel3, <<"vehicle", "audi", "tt">>, <<"walker", "pedestrian", "0001">> }

NoDup(s) == \A a, b \in DOMAIN s : a # b => s[a] # s[b]

\* the libraries the server can return: blueprints in iteration order
Libraries == {l \in SeqsUpTo(BlueprintIds, MaxLib) : NoDup(l)}

\* the spawn-point lists the map can return: point k is at location (k, 0, 0)
SpawnPointLists == {[k \in 1..n |-> k] : n \in 0..MaxSpawnPoints}

\* vehicle poses the server can report.  fwd is GetForwardVector() of the pose.
Transforms ==
    { [x |-> 0, y |-> 0, z |-> 0, pitch |-> 0, yaw |-> 0, roll |-> 0,
       fwd |-> [x |-> 1, y |-> 0, z |-> 0]],
      [x |-> 20, y |-> -5, z |-> 1, pitch |-> 0, yaw |-> 90, roll |-> 0,
       fwd |-> [x |-> 0, y |-> 1, z |-> 0]] }

NoTransform ==
    [x |-> 0, y |-> 0, z |-> 0, pitch |-> 0, yaw |-> 0, roll |-> 0,
     fwd |-> [x |-> 0, y |-> 0, z |-> 0]]

-----------------------------------------------------------------------------
(* Handles and pointers.                                                   *)

NullHandle == 0
ActorId == 1

\* a const ActorBlueprint*: the library that owns the pointee and its id
NullPtr == [owner |-> "none", id |-> <<>>]
Garbage == <<"?">>

\* BlueprintLibrary::Find: pointer into the library, nullptr if absent
Find(lib, id) ==
    IF \E k \in DOMAIN lib : lib[k] = id
    THEN [owner |-> "blueprint_library", id |-> id]
    ELSE NullPtr

\* BlueprintLibrary::Filter("vehicle.*"): a new library holding the matches
Filter(lib) == SelectSeq(lib, LAMBDA b : b[1] = "vehicle")

\* What dereferencing p yields.  A pointer into the filtered library is
\* dangling once that library has been destroyed: the read may see the old
\* value, any other bytes, or fault.
Deref(p) ==
    IF p.owner = "vehicles" /\ ~vehicles.alive
    THEN {[kind |-> "value", bp |-> b] : b \in {p.id, Garbage}}
         \cup {[kind |-> "fault", bp |-> Garbage]}
    ELSE {[kind |-> "value", bp |-> p.id]}

DriveControl == [throttle |-> HalfThrottle, steer |-> 0, brake |-> 0]
NoControl == [throttle |-> 0, steer |-> 0, brake |-> 0]
\* the brake tail without `control.throttle = 0.0f`
BrakeControlKeepsThrottle(c) == [c EXCEPT !.brake = FullBrake]

BrakeControl(c) == [c EXCEPT !.throttle = 0, !.brake = FullBrake]

\* lines 101-108: the spectator pose from the sampled vehicle pose
SpectatorTransform(t) ==
    [x |-> t.x - t.fwd.x * BehindMeters,
     y |-> t.y - t.fwd.y * BehindMeters,
     z |-> t.z + AboveMeters,
     pitch |-> CameraPitch, yaw |-> t.yaw, roll |-> t.roll]

\* the loop test with the bound included: one tick too many
LoopCondInclusive(n) == n <= Ticks

LoopCond(n) == n < Ticks

-----------------------------------------------------------------------------
(* Events and exceptions.                                                  *)

Call(op, obj, arg) == [op |-> op, obj |-> obj, arg |-> arg, ok |-> TRUE]

\* the call returns: control moves to next
Returns(ev, next) ==
    /\ log' = Append(log, ev)
    /\ pc' = next
    /\ exc' = exc

\* leaving the try block by an exception destroys its locals before the
\* handler runs: the actor and vehicle handles are released and the
\* filtered library `vehicles`, if the throw is inside its block, is destroyed
Unwind ==
    /\ actor' = NullHandle
    /\ vehicle' = NullHandle
    /\ vehicles' = [vehicles EXCEPT !.alive = FALSE]

\* the call throws a std::exception: the stack is unwound and control moves
\* to the catch handler
Throws(ev) ==
    /\ log' = Append(log, [ev EXCEPT !.ok = FALSE])
    /\ exc' = ev.op
    /\ pc' = "catch"
    /\ Unwind
    /\ UNCHANGED <<cfg, out, timeout, blueprint_library, vehicle_bp, spawn_points,
                   spawn_point, vehicle_transform, control, i>>

\* return 1 from inside main
ReturnFromMain(line) ==
    /\ stderr' = Append(stderr, line)
    /\ status' = 1
    /\ exitVia' = "return"
    /\ pc' = "exited"

Init ==
    /\ pc = "start"
    /\ argv \in Argvs
    /\ host = DefaultHost
    /\ port = DefaultPort
    /\ timeout = 0
    /\ blueprint_library = <<>>
    /\ vehicle_bp = NullPtr
    /\ vehicles = [alive |-> FALSE, bps |-> <<>>]
    /\ spawn_points = <<>>
    /\ spawn_point = 0
    /\ actor = NullHandle
    /\ vehicle = NullHandle
    /\ vehicle_transform = NoTransform
    /\ control = NoControl
    /\ i = 0
    /\ log = <<>>
    /\ stderr = <<>>
    /\ exc = ""
    /\ status = -1
    /\ exitVia = "none"


-----------------------------------------------------------------------------
(* The statements of main, in program order.                               *)

\* lines 25-33: defaults, host = argv[1], port = std::stoi(argv[2])
ParseArgs ==
    /\ pc = "start"
    /\ LET argc == Len(argv) + 1
           r    == IF argc > 2 THEN stoi(argv[2])
                   ELSE [ok |-> TRUE, what |-> "", val |-> DefaultPort]
       IN  /\ host' = IF argc > 1 THEN argv[1] ELSE DefaultHost
           /\ IF r.ok
              THEN port' = ToUint16(r.val) /\ pc' = "connect" /\ exc' = exc
              ELSE port' = port /\ pc' = "catch" /\ exc' = "stoi"
    /\ UNCHANGED <<argv, sess, veh, out, log>>

\* line 38: cc::Client(host, port)
Connect ==
    /\ pc = "connect"
    /\ LET ev == Call("Client", "client", <<host, port>>)
       IN  \/ Returns(ev, "set_timeout") /\ UNCHANGED <<cfg, sess, veh, out>>
           \/ Throws(ev)

\* SetTimeout with the duration written in the wrong unit (10ms)
SetTimeoutMillis ==
    /\ pc = "set_timeout"
    /\ LET ev == Call("SetTimeout", "client", 10)
       IN  \/ /\ Returns(ev, "get_world")
              /\ timeout' = 10
              /\ UNCHANGED <<cfg, veh, out, blueprint_library, vehicle_bp,
                             vehicles, spawn_points, spawn_point>>
           \/ Throws(ev)

\* line 39: client.SetTimeout(10s)
SetTimeout ==
    /\ pc = "set_timeout"
    /\ LET ev == Call("SetTimeout", "client", TimeoutMs)
       IN  \/ /\ Returns(ev, "get_world")
              /\ timeout' = TimeoutMs
              /\ UNCHANGED <<cfg, veh, out, blueprint_library, vehicle_bp,
                             vehicles, spawn_points, spawn_point>>
           \/ Throws(ev)

\* line 43: client.GetWorld()
GetWorld ==
    /\ pc = "get_world"
    /\ LET ev == Call("GetWorld", "client", timeout)
       IN  \/ Returns(ev, "get_map") /\ UNCHANGED <<cfg, sess, veh, out>>
           \/ Throws(ev)

\* line 46: world.GetMap()
GetMap ==
    /\ pc = "get_map"
    /\ LET ev == Call("GetMap", "world", timeout)
       IN  \/ Returns(ev, "get_name") /\ UNCHANGED <<cfg, sess, veh, out>>
           \/ Throws(ev)

\* line 47: map->GetName()
GetName ==
    /\ pc = "get_name"
    /\ LET ev == Call("GetName", "map", timeout)
       IN  \/ Returns(ev, "get_blueprint_library") /\ UNCHANGED <<cfg, sess, veh, out>>
           \/ Throws(ev)

\* line 51: world.GetBlueprintLibrary()
GetBlueprintLibrary ==
    /\ pc = "get_blueprint_library"
    /\ LET ev == Call("GetBlueprintLibrary", "world", timeout)
       IN  \/ /\ Returns(ev, "find")
              /\ blueprint_library' \in Libraries
              /\ UNCHANGED <<cfg, veh, out, timeout, vehicle_bp, vehicles,
                             spawn_points, spawn_point>>
           \/ Throws(ev)

\* lines 55-56, 65-67: Find("vehicle.tesla.model3") and the test for nullptr
FindBlueprint ==
    /\ pc = "find"
    /\ LET ev == Call("Find", "blueprint_library", TeslaModel3)
           p  == Find(blueprint_library, TeslaModel3)
       IN  \/ /\ Returns(ev, IF p = NullPtr THEN "filter" ELSE "get_spawn_points")
              /\ vehicle_bp' = p
              /\ UNCHANGED <<cfg, veh, out, timeout, blueprint_library, vehicles,
                             spawn_points, spawn_point>>
           \/ Throws(ev)

\* lines 58-63: Filter("vehicle.*"), the empty test, vehicle_bp = &(*vehicles)[0]
FilterVehicles ==
    /\ pc = "filter"
    /\ LET ev == Call("Filter", "blueprint_library", <<"vehicle", "*">>)
           f  == Filter(blueprint_library)
       IN  \/ /\ f = <<>>
              /\ log' = Append(log, ev)
              /\ exc' = exc
              /\ vehicles' = [alive |-> FALSE, bps |-> <<>>]
              /\ ReturnFromMain([prefix |-> "Error: ", msg |-> "No vehicle blueprints found"])
              /\ UNCHANGED <<cfg, veh, timeout, blueprint_library, vehicle_bp,
                             spawn_points, spawn_point>>
           \/ /\ f # <<>>
              /\ Returns(ev, "get_bp_id")
              /\ vehicles' = [alive |-> TRUE, bps |-> f]
              /\ vehicle_bp' = [owner |-> "vehicles", id |-> f[1]]
              /\ UNCHANGED <<cfg, veh, out, timeout, blueprint_library,
                             spawn_points, spawn_point>>
           \/ Throws(ev)

\* lines 64-65: vehicle_bp->GetId(), then the block ends and `vehicles`,
\* the only owner of the filtered library, is destroyed
UseFirstVehicle ==
    /\ pc = "get_bp_id"
    /\ LET ev == Call("GetId", "vehicle_bp", vehicle_bp.id)
       IN  \/ /\ Returns(ev, "get_spawn_points")
              /\ vehicles' = [vehicles EXCEPT !.alive = FALSE]
              /\ UNCHANGED <<cfg, veh, out, timeout, blueprint_library, vehicle_bp,
                             spawn_points, spawn_point>>
           \/ Throws(ev)

\* lines 71-78: map->GetRecommendedSpawnPoints(), the empty test, index 0
GetSpawnPoints ==
    /\ pc = "get_spawn_points"
    /\ LET ev == Call("GetRecommendedSpawnPoints", "map", timeout)
       IN  \/ \E pts \in SpawnPointLists :
                /\ spawn_points' = pts
                /\ UNCHANGED <<cfg, veh, timeout, blueprint_library, vehicle_bp, vehicles>>
                /\ IF pts = <<>>
                   THEN /\ log' = Append(log, ev)
                        /\ exc' = exc
                        /\ spawn_point' = spawn_point
                        /\ ReturnFromMain([prefix |-> "Error: ", msg |-> "No spawn points found"])
                   ELSE /\ Returns(ev, "spawn")
                        /\ spawn_point' = pts[1]
                        /\ UNCHANGED out
           \/ Throws(ev)

\* lines 86-88: world.SpawnActor(*vehicle_bp, spawn_point) and the cast
SpawnActor ==
    /\ pc = "spawn"
    /\ \E d \in Deref(vehicle_bp) :
         LET ev == Call("SpawnActor", "world", [bp |-> d.bp, at |-> spawn_point])
         IN  \/ /\ d.kind = "value"
                /\ Returns(ev, "get_id")
                /\ actor' = ActorId
                /\ vehicle' = ActorId
                /\ UNCHANGED <<cfg, sess, out, vehicle_transform, control, i>>
             \/ /\ d.kind = "value"
                /\ Throws(ev)
             \/ /\ d.kind = "fault"
                /\ pc' = "exited"
                /\ exitVia' = "signal"
                /\ UNCHANGED <<cfg, sess, veh, stderr, status, log, exc>>

\* line 89: vehicle->GetId()
GetId ==
    /\ pc = "get_id"
    /\ LET ev == Call("GetId", "vehicle", vehicle)
       IN  \/ Returns(ev, "settle") /\ UNCHANGED <<cfg, sess, veh, out>>
           \/ Throws(ev)

\* the post-spawn sleep left out
SettleSkipped ==
    /\ pc = "settle"
    /\ pc' = "get_spectator"
    /\ UNCHANGED <<cfg, sess, veh, out, log, exc>>

\* line 92: std::this_thread::sleep_for(1s)
Settle ==
    /\ pc = "settle"
    /\ Returns(Call("sleep_for", "this_thread", SettleMs), "get_spectator")
    /\ UNCHANGED <<cfg, sess, veh, out>>

\* line 96: world.GetSpectator()
GetSpectator ==
    /\ pc = "get_spectator"
    /\ LET ev == Call("GetSpectator", "world", timeout)
       IN  \/ Returns(ev, "get_transform") /\ UNCHANGED <<cfg, sess, veh, out>>
           \/ Throws(ev)

\* lines 97-98: vehicle->GetTransform() and its forward vector
GetTransform ==
    /\ pc = "get_transform"
    /\ \E t \in Transforms :
         LET ev == Call("GetTransform", "vehicle", t)
         IN  \/ /\ Returns(ev, "set_transform")
                /\ vehicle_transform' = t
                /\ UNCHANGED <<cfg, sess, out, actor, vehicle, control, i>>
             \/ Throws(ev)

\* lines 101-110: spectator->SetTransform(...)
SetTransform ==
    /\ pc = "set_transform"
    /\ LET ev == Call("SetTransform", "spectator", SpectatorTransform(vehicle_transform))
       IN  \/ Returns(ev, "scenario_start") /\ UNCHANGED <<cfg, sess, veh, out>>
           \/ Throws(ev)

\* lines 116-122: the drive control and the loop counter
ScenarioStart ==
    /\ pc = "scenario_start"
    /\ control' = DriveControl
    /\ i' = 0
    /\ pc' = "loop"
    /\ UNCHANGED <<cfg, sess, out, actor, vehicle, vehicle_transform, log, exc>>

\* ApplyControl wrapped in its own try/catch that swallows the exception
ApplyControlSwallowed ==
    /\ pc = "loop"
    /\ LoopCond(i)
    /\ LET ev == Call("ApplyControl", "vehicle", control)
       IN  \/ Returns(ev, "get_location") /\ UNCHANGED <<cfg, sess, veh, out>>
           \/ Returns([ev EXCEPT !.ok = FALSE], "get_location")
              /\ UNCHANGED <<cfg, sess, veh, out>>

\* lines 122-123: the loop test and vehicle->ApplyControl(control)
ApplyControl ==
    /\ pc = "loop"
    /\ LoopCond(i)
    /\ LET ev == Call("ApplyControl", "vehicle", control)
       IN  \/ Returns(ev, "get_location") /\ UNCHANGED <<cfg, sess, veh, out>>
           \/ Throws(ev)

\* line 126: vehicle->GetLocation()
GetLocation ==
    /\ pc = "get_location"
    /\ LET ev == Call("GetLocation", "vehicle", i)
       IN  \/ Returns(ev, "get_velocity") /\ UNCHANGED <<cfg, sess, veh, out>>
           \/ Throws(ev)

\* the velocity sampled on every tenth tick only
GetVelocityEveryTenth ==
    /\ pc = "get_velocity"
    /\ LET ev == Call("GetVelocity", "vehicle", i)
       IN  \/ /\ i % 10 = 0
              /\ Returns(ev, "tick_sleep")
              /\ UNCHANGED <<cfg, sess, veh, out>>
           \/ /\ i % 10 # 0
              /\ pc' = "tick_sleep"
              /\ UNCHANGED <<cfg, sess, veh, out, log, exc>>
           \/ /\ i % 10 = 0
              /\ Throws(ev)

\* lines 127-134: vehicle->GetVelocity(), the speed and the log line
GetVelocity ==
    /\ pc = "get_velocity"
    /\ LET ev == Call("GetVelocity", "vehicle", i)
       IN  \/ Returns(ev, "tick_sleep") /\ UNCHANGED <<cfg, sess, veh, out>>
           \/ Throws(ev)

\* lines 136, 122: sleep_for(100ms) and ++i
TickSleep ==
    /\ pc = "tick_sleep"
    /\ Returns(Call("sleep_for", "this_thread", TickMs), "loop")
    /\ i' = i + 1
    /\ UNCHANGED <<cfg, sess, out, actor, vehicle, vehicle_transform, control>>

\* lines 122, 141-143: the loop ends; throttle 0, brake 1, ApplyControl
Brake ==
    /\ pc = "loop"
    /\ ~LoopCond(i)
    /\ LET c  == BrakeControl(control)
           ev == Call("ApplyControl", "vehicle", c)
       IN  /\ control' = c
           /\ \/ /\ Returns(ev, "dwell")
                 /\ UNCHANGED <<cfg, sess, out, actor, vehicle, vehicle_transform, i>>
              \/ /\ log' = Append(log, [ev EXCEPT !.ok = FALSE])
                 /\ exc' = ev.op
                 /\ pc' = "catch"
                 /\ Unwind
                 /\ UNCHANGED <<cfg, out, timeout, blueprint_library, vehicle_bp,
                                spawn_points, spawn_point, vehicle_transform, i>>

\* line 145: sleep_for(2s)
Dwell ==
    /\ pc = "dwell"
    /\ Returns(Call("sleep_for", "this_thread", DwellMs), "release")
    /\ UNCHANGED <<cfg, sess, veh, out>>

\* the release preceded by the explicit vehicle->Destroy()
ReleaseWithDestroy ==
    /\ pc = "release"
    /\ log' = log \o << Call("Destroy", "vehicle", vehicle),
                        Call("reset", "vehicle", vehicle), Call("reset", "actor", actor) >>
    /\ vehicle' = NullHandle
    /\ actor' = NullHandle
    /\ pc' = "exit"
    /\ UNCHANGED <<cfg, sess, out, vehicle_transform, control, i, exc>>

\* lines 153-154: vehicle.reset(); actor.reset(); no Destroy()
Release ==
    /\ pc = "release"
    /\ log' = log \o << Call("reset", "vehicle", vehicle), Call("reset", "actor", actor) >>
    /\ vehicle' = NullHandle
    /\ actor' = NullHandle
    /\ pc' = "exit"
    /\ UNCHANGED <<cfg, sess, out, vehicle_transform, control, i, exc>>

\* lines 163-167: std::exit(0)
ExitSuccess ==
    /\ pc = "exit"
    /\ status' = 0
    /\ exitVia' = "std::exit"
    /\ pc' = "exited"
    /\ UNCHANGED <<cfg, sess, veh, stderr, log, exc>>

\* lines 169-171: catch (const std::exception&), one line to cerr, std::exit(1)
CatchHandler ==
    /\ pc = "catch"
    /\ stderr' = Append(stderr, [prefix |-> "Error occurred: ", msg |-> exc])
    /\ status' = 1
    /\ exitVia' = "std::exit"
    /\ pc' = "exited"
    /\ UNCHANGED <<cfg, sess, veh, log, exc>>

Next ==
    \/ ParseArgs
    \/ Connect
    \/ SetTimeout
    \/ GetWorld
    \/ GetMap
    \/ GetName
    \/ GetBlueprintLibrary
    \/ FindBlueprint
    \/ FilterVehicles
    \/ UseFirstVehicle
    \/ GetSpawnPoints
    \/ SpawnActor
    \/ GetId
    \/ Settle
    \/ GetSpectator
    \/ GetTransform
    \/ SetTransform
    \/ ScenarioStart
    \/ ApplyControl
    \/ GetLocation
    \/ GetVelocity
    \/ TickSleep
    \/ Brake
    \/ Dwell
    \/ Release
    \/ ExitSuccess
    \/ CatchHandler

Spec == Init /\ [][Next]_vars


-----------------------------------------------------------------------------
(* Vocabulary of the properties.                                           *)

\* the run ended through std::exit(0)
Completed == pc = "exited" /\ exitVia = "std::exit" /\ status = 0

\* positions in log of the calls named op
Idx(op) == {k \in DOMAIN log : log[k].op = op}

Controls == Idx("ApplyControl")

Sleeps(ms) == {k \in Idx("sleep_for") : log[k].arg = ms}

SdkOps ==
    { "Client", "SetTimeout", "GetWorld", "GetMap", "GetName",
      "GetBlueprintLibrary", "Find", "Filter", "GetRecommendedSpawnPoints",
      "SpawnActor", "GetId", "GetSpectator", "GetTransform", "SetTransform",
      "ApplyControl", "GetLocation", "GetVelocity" }

WorldQueries ==
    { "GetWorld", "GetMap", "GetBlueprintLibrary", "GetSpectator",
      "GetRecommendedSpawnPoints", "SpawnActor" }

-----------------------------------------------------------------------------
(* C1: whenever an SDK call has thrown, it is the last call of the run:    *)
(* no control message (and no other call) follows it, control is in the    *)
(* catch handler or the run has ended, and a run ended this way has        *)
(* written exactly one stderr line, beginning "Error occurred:", and has   *)
(* exit status 1.                                                          *)
C1_ThrowReportedOnce ==
    \A k \in DOMAIN log :
        ~log[k].ok =>
            /\ log[k].op \in SdkOps
            /\ \A j \in DOMAIN log : j > k => log[j].op # "ApplyControl"
            /\ pc \in {"catch", "exited"}
            /\ pc = "exited" =>
                 /\ Len(stderr) = 1
                 /\ stderr[1].prefix = "Error occurred: "
                 /\ status = 1

\* a run that ended after ApplyControl threw in the middle of the loop
C1_Witness ==
    /\ pc = "exited"
    /\ status = 1
    /\ \E k \in Controls : ~log[k].ok /\ \E j \in Controls : j < k /\ log[j].ok

(* C2: every run that ends without completing has "Error occurred: ..." as *)
(* its last stderr line and ends through std::exit with status 1.          *)
C2_EveryFailureThroughHandler ==
    (pc = "exited" /\ ~Completed) =>
        /\ Len(stderr) >= 1
        /\ stderr[Len(stderr)].prefix = "Error occurred: "
        /\ exitVia = "std::exit"
        /\ status = 1

(* C3: in a completed run the control messages before the last one (the    *)
(* brake message) are exactly 50, each sent successfully with throttle     *)
(* 0.5, steer 0, brake 0.                                                  *)
C3_FiftyDriveControls ==
    Completed =>
        LET drive == {k \in Controls : \E b \in Controls : k < b}
        IN  /\ Cardinality(drive) = 50
            /\ \A k \in drive :
                 /\ log[k].ok
                 /\ log[k].arg = [throttle |-> 5, steer |-> 0, brake |-> 0]

\* a completed run whose first control message is the drive control
C3_Witness ==
    /\ Completed
    /\ \E k \in Controls : log[k].arg.throttle = 5 /\ \A j \in Controls : k <= j

(* C4: once teardown is reached (handles being released, or the run        *)
(* completed), exactly one control message with throttle 0, steer 0,       *)
(* brake 1 has been emitted; the 50 drive controls all precede it, no      *)
(* control message follows it, and the release of the handles follows it.  *)
C4_SingleBrakeLast ==
    (pc \in {"release", "exit"} \/ Completed) =>
        LET brakes == {k \in Controls :
                          log[k].arg = [throttle |-> 0, steer |-> 0, brake |-> 10]}
        IN  /\ Cardinality(brakes) = 1
            /\ \A b \in brakes :
                 /\ \A k \in Controls : k <= b
                 /\ Cardinality({k \in Controls : k < b /\ log[k].arg.throttle = 5}) = 50
                 /\ \A r \in Idx("reset") : b < r

\* a completed run in which the brake message was the 51st control message
C4_Witness ==
    /\ Completed
    /\ Cardinality(Controls) = 51
    /\ \E k \in Controls : log[k].arg.brake = 10 /\ \A j \in Controls : j <= k

(* C5: in a completed run GetLocation and GetVelocity are each called      *)
(* exactly 50 times, and the n-th call of each is issued when exactly n    *)
(* control messages have been emitted: after the control message of its    *)
(* tick and before the control message of the next tick.                   *)
C5_TelemetryPerTick ==
    Completed =>
        LET ctl == Controls
            loc == Idx("GetLocation")
            vel == Idx("GetVelocity")
        IN  /\ Cardinality(loc) = 50
            /\ Cardinality(vel) = 50
            /\ \A l \in loc :
                 /\ log[l].ok
                 /\ Cardinality({c \in ctl : c < l}) = Cardinality({j \in loc : j <= l})
            /\ \A v \in vel :
                 /\ log[v].ok
                 /\ Cardinality({c \in ctl : c < v}) = Cardinality({j \in vel : j <= v})

\* a completed run with a telemetry sample taken in the last tick
C5_Witness ==
    /\ Completed
    /\ \E k \in Idx("GetVelocity") : log[k].arg = 49

(* C6: in a completed run SetTransform is called exactly once; it follows  *)
(* the spawn and the 1 s sleep, it precedes every control message, and its *)
(* pose is derived from the one GetTransform sample of the run.            *)
C6_SpectatorPlacedOnce ==
    Completed =>
        /\ Cardinality(Idx("SetTransform")) = 1
        /\ Cardinality(Idx("GetTransform")) = 1
        /\ \A s \in Idx("SetTransform") :
             /\ \E sp \in Idx("SpawnActor") : \E sl \in Sleeps(1000) :
                    sp < sl /\ sl < s
             /\ \A c \in Controls : s < c
             /\ \A g \in Idx("GetTransform") :
                    /\ g < s
                    /\ log[s].arg.yaw = log[g].arg.yaw
                    /\ log[s].arg.roll = log[g].arg.roll
                    /\ log[s].arg.z = log[g].arg.z + 3

\* a completed run whose spectator was placed from a vehicle pose with yaw 90
C6_Witness ==
    /\ Completed
    /\ \E s \in Idx("SetTransform") : log[s].arg.yaw = 90 /\ log[s].arg.y = -12

(* C7: every world query in the log is preceded by a successful            *)
(* SetTimeout of 10 s.                                                     *)
C7_TimeoutBeforeWorldQuery ==
    \A k \in DOMAIN log :
        log[k].op \in WorldQueries =>
            \E j \in Idx("SetTimeout") : j < k /\ log[j].ok /\ log[j].arg = 10000

\* a state in which the spawn request, the last kind of world query, was issued
C7_Witness ==
    /\ Idx("SpawnActor") # {}
    /\ Idx("GetWorld") # {}

(* C8: the blueprint of every spawn request is vehicle.tesla.model3 when   *)
(* the library contains it, otherwise the first element of the vehicle.*   *)
(* filter; with neither, the run ends with status 1 and the "No vehicle    *)
(* blueprints found" line, without a spawn request.                        *)
C8_BlueprintSelection ==
    LET hasTesla == Find(blueprint_library, TeslaModel3) # NullPtr
        matches  == Filter(blueprint_library)
    IN  /\ \A k \in Idx("SpawnActor") :
              IF hasTesla THEN log[k].arg.bp = TeslaModel3
              ELSE matches # <<>> /\ log[k].arg.bp = matches[1]
        /\ (Idx("Filter") # {} /\ ~hasTesla /\ matches = <<>> /\ pc = "exited"
              /\ \A k \in Idx("Filter") : log[k].ok) =>
              /\ status = 1
              /\ stderr = <<[prefix |-> "Error: ", msg |-> "No vehicle blueprints found"]>>
              /\ Idx("SpawnActor") = {}

(* C9: once the arguments are parsed, the port is 2000 without a second    *)
(* argument and the argument's value when that value is in 0..65535; for   *)
(* any other second argument no connection is attempted and the run ends   *)
(* with status 1.                                                          *)
C9_PortParsing ==
    pc # "start" =>
        IF Len(argv) < 2 THEN port = 2000
        ELSE LET r == stoi(argv[2])
             IN  IF r.ok /\ r.val \in 0..65535
                 THEN port = r.val
                 ELSE /\ Idx("Client") = {}
                      /\ pc \in {"catch", "exited"}
                      /\ pc = "exited" => status = 1

(* C10: no Destroy call is ever issued; a run ends with status 0 only      *)
(* after the brake message, then the 2 s sleep, then the release of the    *)
(* vehicle and actor handles, both null at the exit; no call is made on    *)
(* the vehicle after its handle is released.                               *)
C10_Teardown ==
    /\ Idx("Destroy") = {}
    /\ status = 0 =>
         /\ exitVia = "std::exit"
         /\ vehicle = NullHandle
         /\ actor = NullHandle
         /\ \E b \in Controls : \E d \in Sleeps(2000) : \E r \in Idx("reset") :
               /\ log[b].arg.brake = 10
               /\ b < d
               /\ d < r
         /\ {log[r].obj : r \in Idx("reset")} = {"vehicle", "actor"}
    /\ \A r \in Idx("reset") :
         \A k \in DOMAIN log : k > r => log[k].op = "reset"

\* a run that exited with status 0 after releasing the handle it had held
C10_Witness ==
    /\ Completed
    /\ \E r \in Idx("reset") : log[r].obj = "vehicle" /\ log[r].arg = ActorId

=============================================================================
